---- MODULE Spec2Model ----
(***************************************************************************)
(* The openafs plugin of collectd (src/openafs.c): a registry of classes,  *)
(* each backed by a read-only mapping of a shared-memory segment of        *)
(* counters, built by openafs_config, sampled by openafs_read and released *)
(* by openafs_destroy.  The host calls the three callbacks one at a time;  *)
(* the producer of the counters writes the segments concurrently.          *)
(***************************************************************************)
EXTENDS Integers, Sequences, FiniteSets, TLC

\* ------------------------------------------------------------------ bounds
MaxItems == 2        \* top-level items of a configuration block
MaxChildren == 2     \* children of one Class block
MaxCalls == 3        \* callbacks the host invokes in one run
WriterSteps == 2     \* increments the producer applies to its slot

\* --------------------------------------------------------------- constants
OPENAFS_STR_MAX_LEN == 256

NULL == 0
MAP_FAILED == -1

\* Descriptors 0..2 belong to the host (stdin, stdout, stderr).
HostFds == {0, 1, 2}
MaxFd == 2 + MaxItems * MaxCalls
Fds == 0..MaxFd

\* ------------------------------------------------------------------ strings
\* A string is its identity and its length (strlen).
Str(id, len) == [id |-> id, len |-> len]
NoStr == Str("", 0)

\* Class names a configuration may use: a short one, one of the longest
\* length that fits the segment-name buffer, and one that is one too long.
ClassNames ==
    { Str("afs", 3),
      Str("vol", OPENAFS_STR_MAX_LEN - 2),
      Str("big", OPENAFS_STR_MAX_LEN - 1) }

\* Segments the producer may have created.
Segments == {"afs", "vol"}

\* The value of the j-th child of a class block.
LabelAt(j) == Str(IF j = 1 THEN "hits" ELSE IF j = 2 THEN "misses" ELSE "more", 4 + j)

\* ------------------------------------------------------- configuration tree
\* oconfig_item_t: a key, at most one string value, children.
Kids ==
    { [key |-> "Counter", hasStr |-> TRUE],
      [key |-> "Counter", hasStr |-> FALSE],
      [key |-> "Other",   hasStr |-> TRUE] }

KidSeqs == UNION { [1..k -> Kids] : k \in 0..MaxChildren }

\* A length test that forgets the terminating byte.
FitsLoose(name) == name.len + 1 <= OPENAFS_STR_MAX_LEN

\* The name fits the buffer of the segment name.
Fits(name) == name.len + 2 <= OPENAFS_STR_MAX_LEN

\* Children and value of an item the code never looks at are left empty.
Items ==
    { [key |-> "Other", hasStr |-> FALSE, name |-> NoStr, children |-> <<>>] }
    \cup
    { [key |-> "Class", hasStr |-> FALSE, name |-> NoStr, children |-> <<>>] }
    \cup
    { [key |-> "Class", hasStr |-> TRUE, name |-> n, children |-> <<>>] :
        n \in { x \in ClassNames : ~Fits(x) } }
    \cup
    { [key |-> "Class", hasStr |-> TRUE, name |-> n, children |-> c] :
        n \in { x \in ClassNames : Fits(x) }, c \in KidSeqs }

\* The configuration blocks of n top-level items.
Trees(n) == [1..n -> Items]

\* ------------------------------------------------------------------- state
VARIABLES
    tree,       \* the configuration block the host hands to openafs_config
    lstPtr,     \* openafs_class_lst: NULL or the heap block of the list
    lstLen,     \* openafs_class_lst_len
    lst,        \* the contents of the block lstPtr points to (kept when freed)
    heap,       \* heap blocks: block id -> [live, str, arr]
    fdt,        \* descriptor table of the process
    maps,       \* mappings created by mmap: id -> [live, seg, len]
    mem,        \* the producer's segments: segment -> counters
    rd,         \* position of the read pass in progress, or idle
    out,        \* samples dispatched by the current (or last) read pass
    ev,         \* system and library calls of the current (or last) callback
    last,       \* the current (or last) callback and its return value
    crashed,    \* the process was killed by a signal or by abort()
    calls,      \* number of callbacks the host has invoked
    reg,        \* how the registry got into its present state
    owned,      \* what the last call of openafs_config acquired
    lastW,      \* last value dispatched for the producer's slot, or -1
    prevW       \* the value dispatched for that slot before lastW, or -1

vars == << tree, lstPtr, lstLen, lst, heap, fdt, maps, mem, rd, out, ev, last,
           crashed, calls, reg, owned, lastW, prevW >>

\* ------------------------------------------------------------ environment
Min(a, b) == IF a < b THEN a ELSE b

\* One system or library call: its kind, the list entry it is made for (0
\* for the list itself), its argument or result, its outcome and the string
\* it was given.
Event(k, i, a, r, s) == [k |-> k, i |-> i, a |-> a, r |-> r, s |-> s]

\* What the operating system answers during one call of openafs_config:
\* every call succeeds, except that the allocation of the list ("lst") or
\* the shm_open, the mmap or the calloc of one top-level item may fail.  A
\* calloc of zero elements may return a null pointer without any shortage
\* of memory: that outcome is the same fault.
NoFault == [at |-> 0, what |-> "none"]

\* The faults that a call for the block ci can meet.
Faults(ci) ==
    { NoFault, [at |-> 0, what |-> "lst"] }
    \cup
    { [at |-> i, what |-> w] : i \in 1..Len(ci), w \in {"open", "mmap", "calloc"} }

\* The call `what` of item i succeeds under the fault env.
Ok(env, i, what) == ~(env.at = i /\ env.what = what)

\* The counters the producer starts with: distinct in every slot.
SegSlots == MaxChildren
SegBase(seg) == IF seg = "afs" THEN 0 ELSE 100
SegInit == [seg \in Segments |-> [j \in 1..SegSlots |-> SegBase(seg) + 10 * j]]

\* The slot the producer keeps incrementing.
Produced == [seg |-> "afs", slot |-> 1]
WSeg == Produced.seg
WSlot == Produced.slot
WInitial == SegInit[WSeg][WSlot]
WFinal == WInitial + WriterSteps

\* A zero-initialised openafs_class_t, as calloc returns it.
ZeroClass ==
    [fd |-> 0, class |-> NULL, labels |-> NULL, counters |-> NULL, n_counters |-> 0]

\* malloc/calloc/strdup: a new live block holding a string or an array.
Block(str, arr) == [live |-> TRUE, str |-> str, arr |-> arr]

\* The lowest descriptor that is not open, or -1 when the table is full.
LowestFree(t) ==
    IF \E f \in Fds : t[f] = "closed"
    THEN CHOOSE f \in Fds : t[f] = "closed" /\ \A g \in Fds : g < f => t[g] # "closed"
    ELSE -1

\* cf_util_get_string(ci, &target): on success the target holds a new copy
\* of the item's string value; on failure the target is left alone.
cf_util_get_string(ci, str, h) ==
    IF ci.hasStr
    THEN [status |-> 0, heap |-> Append(h, Block(str, <<>>)), ptr |-> Len(h) + 1]
    ELSE [status |-> -1, heap |-> h, ptr |-> NULL]

\* snprintf(buffer, sizeof(buffer), "/%s", class): the length of the result.
ShmNameLen(name) == Min(1 + name.len, OPENAFS_STR_MAX_LEN - 1)

\* ---------------------------------------------------------- openafs_config
\* The label loop of _openafs_add_stats: children j..n of the class block.
RECURSIVE LabelLoop(_, _, _, _)
LabelLoop(ci, j, arrPtr, st) ==
    IF j > Len(ci.children) \/ st.status # 0 THEN st
    ELSE LET child == ci.children[j] IN
         IF child.key = "Counter"
         THEN LET g == cf_util_get_string(child, LabelAt(j), st.heap) IN
              LabelLoop(ci, j + 1, arrPtr,
                  [st EXCEPT !.status = g.status,
                             !.heap = IF g.status = 0
                                      THEN [g.heap EXCEPT ![arrPtr].arr[j] = g.ptr]
                                      ELSE g.heap])
         ELSE LabelLoop(ci, j + 1, arrPtr, st)

\* mmap(0, len, PROT_READ, MAP_SHARED, fd, 0): a zero length is refused.
MmapOk(len, ok) == len > 0 /\ ok

_openafs_add_stats(ci, i, st, env) ==
    IF ~Fits(ci.name)
    THEN [st EXCEPT !.status = -1]
    ELSE
    LET fd == IF Ok(env, i, "open") /\ ci.name.id \in Segments THEN LowestFree(st.fdt) ELSE -1
        opened == Event("shm_open", i, fd, IF fd < 0 THEN "fail" ELSE "ok",
                        Str(ci.name.id, ShmNameLen(ci.name)))
    IN
    IF fd < 0
    THEN [st EXCEPT !.lst[i].fd = -1, !.ev = Append(@, opened), !.status = -1]
    ELSE
    LET n == Len(ci.children)
        len == n * 4
        mapped == MmapOk(len, Ok(env, i, "mmap"))
        mapRes == IF mapped THEN "ok" ELSE IF len = 0 THEN "EINVAL" ELSE "fail"
        mapId == Len(st.maps) + 1
        counters == IF mapped THEN mapId ELSE MAP_FAILED
        labels == IF Ok(env, i, "calloc") THEN Len(st.heap) + 1 ELSE NULL
        st1 == [st EXCEPT
                  !.fdt[fd] = ci.name.id,
                  !.lst[i].fd = fd,
                  !.lst[i].n_counters = n,
                  !.lst[i].counters = counters,
                  !.lst[i].labels = labels,
                  !.maps = IF mapped
                           THEN Append(@, [live |-> TRUE, seg |-> ci.name.id, n |-> n])
                           ELSE @,
                  !.heap = IF labels # NULL
                           THEN Append(@, Block(NoStr, [j \in 1..n |-> NULL]))
                           ELSE @,
                  !.ev = @ \o << opened,
                                 Event("mmap", i, counters, mapRes, NoStr),
                                 Event("calloc", i, labels, IF labels # NULL THEN "ok" ELSE "fail", NoStr) >>]
    IN
    IF counters = NULL \/ labels = NULL
    THEN [st1 EXCEPT !.status = -1]
    ELSE LabelLoop(ci, 1, labels, st1)

_openafs_process_class(ci, i, st, env) ==
    IF ci.key = "Class"
    THEN LET g == cf_util_get_string(ci, ci.name, st.heap) IN
         IF g.status = 0
         THEN _openafs_add_stats(ci, i,
                  [st EXCEPT !.heap = g.heap, !.lst[i].class = g.ptr], env)
         ELSE [st EXCEPT !.status = g.status]
    ELSE st

\* The loop of openafs_config over the top-level items i..n.
RECURSIVE ConfigLoop(_, _, _, _)
ConfigLoop(ci, i, st, env) ==
    IF i > Len(ci) \/ st.status # 0 THEN st
    ELSE ConfigLoop(ci, i + 1, _openafs_process_class(ci[i], i, st, env), env)

\* --------------------------------------------------------- openafs_destroy
\* free(p) appended to the calls of st: nothing for NULL, a release for a
\* live block, a double free for a block that was released before.
Free(p, i, st) ==
    IF p = NULL THEN st
    ELSE IF st.heap[p].live
    THEN [st EXCEPT !.heap[p].live = FALSE, !.ev = Append(@, Event("free", i, p, "ok", NoStr))]
    ELSE [st EXCEPT !.ev = Append(@, Event("free", i, p, "double", NoStr))]

\* A teardown that forgets the descriptor.
CloseNothing(fd, i, st) == st

\* close(fd): EBADF for a descriptor that is not open; otherwise the
\* descriptor is closed, whoever opened it.
Close(fd, i, st) ==
    IF fd \notin Fds \/ st.fdt[fd] = "closed"
    THEN [st EXCEPT !.ev = Append(@, Event("close", i, fd, "EBADF", NoStr))]
    ELSE [st EXCEPT !.fdt[fd] = "closed",
                    !.ev = Append(@, Event("close", i, fd,
                                 IF st.fdt[fd] = "host" THEN "host" ELSE "ok", NoStr))]

\* munmap(addr, len): EINVAL for a zero length or an address that is not a
\* page boundary (MAP_FAILED); a range with nothing mapped is left alone.
Munmap(addr, len, i, st) ==
    IF len = 0 \/ addr = MAP_FAILED \/ addr = NULL
    THEN [st EXCEPT !.ev = Append(@, Event("munmap", i, addr, "EINVAL", NoStr))]
    ELSE IF st.maps[addr].live
    THEN [st EXCEPT !.maps[addr].live = FALSE,
                    !.ev = Append(@, Event("munmap", i, addr, "ok", NoStr))]
    ELSE [st EXCEPT !.ev = Append(@, Event("munmap", i, addr, "unmapped", NoStr))]

\* _openafs_release_labels: the loop over labels[j..n_counters].
RECURSIVE ReleaseLoop(_, _, _, _)
ReleaseLoop(c, j, i, st) ==
    IF j > c.n_counters THEN st
    ELSE ReleaseLoop(c, j + 1, i, Free(st.heap[c.labels].arr[j], i, st))

_openafs_release_labels(c, i, st) ==
    IF c.labels = NULL THEN st ELSE ReleaseLoop(c, 1, i, st)

\* The loop of openafs_destroy over the entries i..len of the list.
RECURSIVE DestroyLoop(_, _, _)
DestroyLoop(i, len, st) ==
    IF i > len THEN st
    ELSE LET c == st.lst[i]
             s1 == Munmap(c.counters, c.n_counters * 4, i, st)
             s2 == Close(c.fd, i, s1)
             s3 == Free(c.class, i, s2)
         IN DestroyLoop(i + 1, len, _openafs_release_labels(c, i, s3))

\* The list is read through a pointer to a block that was freed.
Dangling(ptr, h) == ptr # NULL /\ ~h[ptr].live

\* openafs_destroy, given the two globals; the globals are not written.
openafs_destroy(ptr, len, st) ==
    LET s0 == IF len > 0 /\ Dangling(ptr, st.heap)
              THEN [st EXCEPT !.ev = Append(@, Event("uaf", 0, ptr, "list", NoStr))]
              ELSE st
    IN Free(ptr, 0, DestroyLoop(1, len, s0))

\* Calls of a callback that have no defined behaviour.
Undefined(events) ==
    { k \in 1..Len(events) :
        \/ events[k].k = "uaf"
        \/ events[k].k = "free" /\ events[k].r = "double"
        \/ events[k].k = "snprintf" /\ events[k].r = "null" }

\* ------------------------------------------------------------ the callbacks
Idle == [i |-> 0, j |-> 0]

\* The memory the callbacks work on, as one record.
Machine == [lst |-> lst, heap |-> heap, fdt |-> fdt, maps |-> maps, ev |-> <<>>, status |-> 0]

\* A callback: which one, whether it has returned, and what it returned.
Call(op, done, ret) == [op |-> op, done |-> done, ret |-> ret]

NoResources == [fds |-> {}, maps |-> {}, blks |-> {}]

Init ==
    /\ \E n \in 0..MaxItems : tree \in Trees(n)
    /\ lstPtr = NULL
    /\ lstLen = 0
    /\ lst = <<>>
    /\ heap = <<>>
    /\ fdt = [f \in Fds |-> IF f \in HostFds THEN "host" ELSE "closed"]
    /\ maps = <<>>
    /\ mem = SegInit
    /\ rd = Idle
    /\ out = <<>>
    /\ ev = <<>>
    /\ last = Call("none", TRUE, 0)
    /\ crashed = FALSE
    /\ calls = 0
    /\ reg = "none"
    /\ owned = NoResources
    /\ lastW = -1
    /\ prevW = -1

\* openafs_config(a_ci) with the operating system answering as env says.
openafs_config(ci, env) ==
    IF ~Ok(env, 0, "lst")
    THEN [ptr |-> NULL, len |-> lstLen,
          st |-> [Machine EXCEPT !.lst = <<>>, !.status = -1,
                                 !.ev = << Event("calloc", 0, NULL, "fail", NoStr) >>]]
    ELSE
    LET ptr == Len(heap) + 1
        st0 == [Machine EXCEPT
                  !.lst = [i \in 1..Len(ci) |-> ZeroClass],
                  !.heap = Append(@, Block(NoStr, <<>>)),
                  !.ev = << Event("calloc", 0, ptr, "ok", NoStr) >>]
    IN [ptr |-> ptr, len |-> Len(ci),
        st |-> LET st1 == ConfigLoop(ci, 1, st0, env) IN
               IF st1.status # 0 THEN openafs_destroy(ptr, Len(ci), st1) ELSE st1]

\* The descriptors, mappings and heap blocks a call with the calls events
\* acquired, the heap having had n blocks before it.
Acquired(events, n, h) ==
    [fds  |-> { events[k].a : k \in { x \in 1..Len(events) :
                    events[x].k = "shm_open" /\ events[x].r = "ok" } },
     maps |-> { events[k].a : k \in { x \in 1..Len(events) :
                    events[x].k = "mmap" /\ events[x].r = "ok" } },
     blks |-> (n + 1)..Len(h)]

\* The host calls the configuration callback with its block, the operating
\* system meeting one of the faults it can meet.
Config ==
    /\ ~crashed /\ rd = Idle
    /\ calls < MaxCalls
    /\ \E env \in Faults(tree) : \E r \in { openafs_config(tree, env) } :
         /\ lstPtr' = r.ptr
         /\ lstLen' = r.len
         /\ lst' = r.st.lst
         /\ heap' = r.st.heap
         /\ fdt' = r.st.fdt
         /\ maps' = r.st.maps
         /\ ev' = r.st.ev
         /\ last' = Call("config", TRUE, r.st.status)
         /\ reg' = IF r.st.status = 0 THEN "ok" ELSE "failed"
         /\ owned' = Acquired(r.st.ev, Len(heap), r.st.heap)
    /\ calls' = calls + 1
    /\ UNCHANGED << tree, mem, rd, out, crashed, lastW, prevW >>

\* The host calls the shutdown callback.  A double free either goes
\* unnoticed or makes the allocator abort the process.
Shutdown ==
    /\ ~crashed /\ rd = Idle
    /\ calls < MaxCalls
    /\ calls' = calls + 1
    /\ reg' = IF reg = "ok" THEN "destroyed" ELSE IF reg = "none" THEN "none" ELSE "stale"
    /\ IF lstLen > 0 /\ lstPtr = NULL
       THEN /\ ev' = << Event("deref", 0, NULL, "SIGSEGV", NoStr) >>
            /\ crashed' = TRUE
            /\ last' = Call("destroy", FALSE, 0)
            /\ UNCHANGED << lst, heap, fdt, maps >>
       ELSE \E st \in { openafs_destroy(lstPtr, lstLen, Machine) } :
            /\ lst' = st.lst
            /\ heap' = st.heap
            /\ fdt' = st.fdt
            /\ maps' = st.maps
            /\ ev' = st.ev
            /\ crashed' \in (IF Undefined(st.ev) # {} THEN BOOLEAN ELSE {FALSE})
            /\ last' = Call("destroy", ~crashed', 0)
    /\ UNCHANGED << tree, lstPtr, lstLen, mem, rd, out, owned, lastW, prevW >>

\* The first slot at or after slot j of entry i that the pass exports.
RECURSIVE NextSlot(_, _, _, _)
NextSlot(l, len, i, j) ==
    IF i > len THEN Idle
    ELSE IF j <= l[i].n_counters THEN [i |-> i, j |-> j]
    ELSE NextSlot(l, len, i + 1, 1)

\* openafs_read is entered: the loop reaches its first slot, or returns.
\* Reading the entries of a freed list either finds them as they were
\* left or kills the process.
ReadBegin ==
    /\ ~crashed /\ rd = Idle
    /\ calls < MaxCalls
    /\ calls' = calls + 1
    /\ out' = <<>>
    /\ IF lstLen > 0 /\ lstPtr = NULL
       THEN /\ ev' = << Event("deref", 0, NULL, "SIGSEGV", NoStr) >>
            /\ crashed' = TRUE
            /\ rd' = Idle
            /\ last' = Call("read", FALSE, 0)
       ELSE /\ ev' = IF lstLen > 0 /\ Dangling(lstPtr, heap)
                     THEN << Event("uaf", 0, lstPtr, "list", NoStr) >>
                     ELSE <<>>
            /\ crashed' \in (IF Undefined(ev') # {} THEN BOOLEAN ELSE {FALSE})
            /\ rd' = IF crashed' THEN Idle ELSE NextSlot(lst, lstLen, 1, 1)
            /\ last' = Call("read", ~crashed' /\ rd' = Idle, 0)
    /\ UNCHANGED << tree, lstPtr, lstLen, lst, heap, fdt, maps, mem, reg, owned,
                    lastW, prevW >>

\* A load that indexes the view from the wrong end.
LoadMirrored(seg, j) == mem[seg][SegSlots + 1 - j]

\* atomic_load_explicit(&counters[j], memory_order_relaxed): the whole word
\* as the segment holds it at this instant.
AtomicLoad(seg, j) == mem[seg][j]

\* The first k characters of the string s.
Take(s, k) == IF k >= s.len THEN s ELSE IF k <= 0 THEN NoStr ELSE Str(s.id, k)

\* snprintf(buffer, size, "%s_%s", class, label): what the buffer holds, as
\* the part of the class name, the underscore and the part of the label
\* that found room before the terminating byte.
FormatType(class, label, size) ==
    [class |-> Take(class, size - 1),
     sep   |-> class.len < size - 1,
     label |-> Take(label, size - 1 - class.len - 1)]

\* sizeof(vl.type), the type field of value_list_t.
DATA_MAX_NAME_LEN == 128

\* sstrncpy(dest, src, n): the first n - 1 characters of src.
sstrncpy(src, n) ==
    [class |-> Take(src.class, n - 1),
     sep   |-> src.sep /\ src.class.len < n - 1,
     label |-> IF src.sep THEN Take(src.label, n - 1 - src.class.len - 1) ELSE NoStr]

\* The address counters + j can be read.
Readable(c) == c.counters > 0 /\ maps[c.counters].live

\* One iteration of the loop of _openafs_export_class: slot rd.j of entry
\* rd.i.  Formatting a null label either prints "(null)" or kills the
\* process; loading from an address that is not mapped kills it.
ReadSlot ==
    /\ ~crashed /\ rd # Idle
    /\ LET c == lst[rd.i]
           lp == IF c.labels = NULL THEN NULL ELSE heap[c.labels].arr[rd.j]
           nullLabel == lp = NULL
           fmt == Event("snprintf", rd.i, lp, IF nullLabel THEN "null" ELSE "ok", NoStr)
       IN
       IF c.labels = NULL \/ ~Readable(c)
       THEN /\ ev' = ev \o << fmt, Event("load", rd.i, c.counters, "SIGSEGV", NoStr) >>
            /\ crashed' = TRUE
            /\ rd' = Idle
            /\ UNCHANGED << out, lastW, prevW, last >>
       ELSE \E dies \in (IF nullLabel THEN BOOLEAN ELSE {FALSE}) :
            /\ crashed' = dies
            /\ IF dies
               THEN /\ ev' = Append(ev, fmt)
                    /\ rd' = Idle
                    /\ UNCHANGED << out, lastW, prevW, last >>
               ELSE LET seg == maps[c.counters].seg
                        counter == AtomicLoad(seg, rd.j)
                        mine == seg = WSeg /\ rd.j = WSlot
                        label == IF nullLabel THEN Str("(null)", 6) ELSE heap[lp].str
                    IN
                    /\ ev' = ev \o << fmt, Event("load", rd.i, c.counters, "ok", NoStr) >>
                    /\ out' = Append(out,
                          [class |-> heap[c.class].str,
                           label |-> label,
                           type |-> sstrncpy(FormatType(heap[c.class].str, label,
                                                        OPENAFS_STR_MAX_LEN),
                                             DATA_MAX_NAME_LEN),
                           i |-> rd.i, j |-> rd.j, seg |-> seg, value |-> counter])
                    /\ lastW' = IF mine THEN counter ELSE lastW
                    /\ prevW' = IF mine THEN lastW ELSE prevW
                    /\ rd' = NextSlot(lst, lstLen, rd.i, rd.j + 1)
                    /\ last' = Call("read", rd' = Idle, 0)
    /\ UNCHANGED << tree, lstPtr, lstLen, lst, heap, fdt, maps, mem, calls, reg, owned >>

\* The producer increments its slot.
Writer ==
    /\ ~crashed
    /\ mem[WSeg][WSlot] < WFinal
    /\ mem' = [mem EXCEPT ![WSeg][WSlot] = @ + 1]
    /\ UNCHANGED << tree, lstPtr, lstLen, lst, heap, fdt, maps, rd, out, ev, last,
                    crashed, calls, reg, owned, lastW, prevW >>

\* The host alone: the segments keep their contents.
Next == Config \/ Shutdown \/ ReadBegin \/ ReadSlot

Spec == Init /\ [][Next]_vars

\* The host and the producer side by side.
NextW == Config \/ Shutdown \/ ReadBegin \/ ReadSlot \/ Writer

SpecW == Init /\ [][NextW]_vars

\* ------------------------------------------------------------------ claims
Calls == DOMAIN ev

\* The children of a class block that are keyed Counter, in order.
CounterChildren(ci) == { j \in 1..Len(ci.children) : ci.children[j].key = "Counter" }

\* The position among all children of the k-th Counter child.
KthCounter(ci, k) ==
    CHOOSE j \in CounterChildren(ci) :
        Cardinality({ x \in CounterChildren(ci) : x <= j }) = k

\* The top-level items keyed Class, and the others.
ClassItems == { i \in 1..Len(tree) : tree[i].key = "Class" }
OtherItems == { i \in 1..Len(tree) : tree[i].key # "Class" }

\* The list built by the last openafs_config is in place and was not freed.
RegistryLive == reg = "ok" /\ lstPtr # NULL /\ heap[lstPtr].live

\* C1: when shm_open fails for a class, openafs_config returns non-zero
\* and, as it returns, every descriptor it opened and every mapping it
\* created during this call has been released.
C1_OpenFailureReleasesAll ==
    (last.op = "config" /\ \E k \in Calls : ev[k].k = "shm_open" /\ ev[k].r = "fail")
    => /\ last.ret # 0
       /\ \A f \in owned.fds : fdt[f] = "closed"
       /\ \A m \in owned.maps : ~maps[m].live

\* C1 witness: a call that opened and mapped an earlier class, then met a
\* segment that cannot be opened.
C1_Witness ==
    /\ last.op = "config"
    /\ \E k \in Calls : ev[k].k = "shm_open" /\ ev[k].r = "fail"
    /\ owned.fds # {}
    /\ owned.maps # {}

\* C2: after openafs_config has returned failure, a read pass emits no
\* sample and touches no registry entry, label or counter mapping.
C2_InertAfterFailedConfig ==
    (reg = "failed" /\ last.op = "read") => (out = <<>> /\ ev = <<>> /\ ~crashed)

\* C3: openafs_destroy changes nothing when there was no configure, when
\* the configure failed, or when a destroy ran before; no call of it frees
\* a block that is already free or closes a descriptor that is not open.
C3_DestroyIsNoOpWhenReleased ==
    [][ (last'.op = "destroy" /\ calls' = calls + 1) =>
          /\ \A k \in DOMAIN ev' :
                /\ ~(ev'[k].k = "free" /\ ev'[k].r = "double")
                /\ ~(ev'[k].k = "uaf")
          /\ (reg # "ok") => (fdt' = fdt /\ maps' = maps /\ heap' = heap /\ ~crashed') ]_vars

\* C4: when the mmap of a class with at least one counter fails,
\* openafs_config returns failure, and no class with counters is left in
\* the registry with the failure value as its counter view.  (A request of
\* length zero, which mmap always refuses, is the subject of C11.)
C4_MapFailureIsReported ==
    /\ (last.op = "config" /\ \E k \in Calls : ev[k].k = "mmap" /\ ev[k].r = "fail")
          => last.ret # 0
    /\ RegistryLive =>
          \A i \in 1..lstLen : lst[i].n_counters > 0 => lst[i].counters # MAP_FAILED

\* What one callback released: descriptors, mappings, heap blocks.
Released(events) ==
    [fds  |-> { events[k].a : k \in { x \in DOMAIN events :
                    events[x].k = "close" /\ events[x].r \in {"ok", "host"} } },
     maps |-> { events[k].a : k \in { x \in DOMAIN events :
                    events[x].k = "munmap" /\ events[x].r = "ok" } },
     blks |-> { events[k].a : k \in { x \in DOMAIN events :
                    events[x].k = "free" /\ events[x].r = "ok" } }]

\* C5: openafs_destroy after a successful openafs_config releases exactly
\* what that call acquired: every descriptor, mapping and heap block of it
\* (names, label strings, label arrays, the list), and nothing else.
C5_DestroyReleasesExactly ==
    (reg = "destroyed" /\ last.op = "destroy" /\ last.done) =>
       /\ \A f \in owned.fds : fdt[f] = "closed"
       /\ \A m \in owned.maps : ~maps[m].live
       /\ \A b \in owned.blks : ~heap[b].live
       /\ Released(ev).fds \subseteq owned.fds
       /\ Released(ev).maps \subseteq owned.maps
       /\ Released(ev).blks \subseteq owned.blks

\* The number of slots the configuration block declares.
DeclaredSlots ==
    LET n == [i \in 1..Len(tree) |->
                IF i \in ClassItems THEN Cardinality(CounterChildren(tree[i])) ELSE 0]
        Sum[i \in 0..Len(tree)] == IF i = 0 THEN 0 ELSE Sum[i - 1] + n[i]
    IN Sum[Len(tree)]

\* C6: after a successful configure every read pass runs to its end,
\* returns 0, and emits one sample per declared slot, each with the value
\* its slot holds, in the order of the classes and of the slots.
C6_ReadEmitsEverySlot ==
    (reg = "ok" /\ last.op = "read") =>
       /\ ~crashed
       /\ \A k \in DOMAIN out : out[k].value = mem[out[k].seg][out[k].j]
       /\ \A k \in DOMAIN out : \A m \in DOMAIN out :
             k < m => \/ out[k].i < out[m].i
                      \/ out[k].i = out[m].i /\ out[k].j < out[m].j
       /\ last.done => (last.ret = 0 /\ Len(out) = DeclaredSlots)

\* C7: every value dispatched for the slot the producer increments is one
\* the slot has held, between its initial and its final value, and the
\* values dispatched for it one after the other never decrease.
C7_ConcurrentReadsAreMonotonic ==
    /\ \A k \in DOMAIN out :
          (out[k].seg = WSeg /\ out[k].j = WSlot) =>
             (WInitial <= out[k].value /\ out[k].value <= mem[WSeg][WSlot])
    /\ lastW # -1 => (WInitial <= lastW /\ lastW <= mem[WSeg][WSlot])
    /\ mem[WSeg][WSlot] <= WFinal
    /\ prevW <= lastW

\* C7 witness: two dispatches for the slot, the producer having moved it
\* from its initial to its final value in between.
C7_Witness ==
    /\ prevW = WInitial
    /\ lastW = WFinal
    /\ \E k \in DOMAIN out : out[k].seg = WSeg /\ out[k].j = WSlot /\ out[k].value = WFinal

\* C8: a class has as many counters as it has Counter children, and the
\* k-th Counter child labels slot k; other children take no slot.
C8_OnlyCounterChildrenTakeSlots ==
    RegistryLive =>
       \A i \in ClassItems :
          /\ lst[i].n_counters = Cardinality(CounterChildren(tree[i]))
          /\ \A k \in 1..Cardinality(CounterChildren(tree[i])) :
                /\ heap[lst[i].labels].arr[k] # NULL
                /\ heap[heap[lst[i].labels].arr[k]].str = LabelAt(KthCounter(tree[i], k))

\* C9: whenever openafs_read can be called, every class entry of the
\* registry is fully constructed: its descriptor is an open segment, its
\* counters are a live mapping of n_counters slots, no label is null.
C9_EntriesFullyConstructed ==
    (~crashed /\ rd = Idle /\ lstLen > 0 /\ reg = "ok") =>
       /\ RegistryLive
       /\ \A i \in ClassItems :
             /\ lst[i].fd \in Fds /\ fdt[lst[i].fd] \in Segments
             /\ lst[i].n_counters > 0 =>
                   /\ lst[i].counters > 0
                   /\ maps[lst[i].counters].live
                   /\ maps[lst[i].counters].n = lst[i].n_counters
             /\ lst[i].labels # NULL
             /\ \A j \in 1..lst[i].n_counters : heap[lst[i].labels].arr[j] # NULL

\* C10: a top-level item that is not keyed Class is skipped: it does not
\* make openafs_config fail, no segment is opened for it, no sample is
\* emitted for it, and nothing is closed, unmapped or freed for it.
C10_OtherItemsAreSkipped ==
    /\ (last.op = "config" /\ ClassItems = {}
          /\ \A k \in Calls : ev[k].r # "fail") => last.ret = 0
    /\ \A k \in Calls :
          ev[k].i \in OtherItems =>
             /\ ev[k].k # "shm_open"
             /\ ~(ev[k].k = "close" /\ ev[k].r \in {"ok", "host"})
             /\ ~(ev[k].k = "munmap" /\ ev[k].r = "ok")
             /\ ev[k].k # "free"
    /\ \A k \in DOMAIN out : out[k].i \notin OtherItems

\* The class blocks without a Counter child.
ZeroCounterClasses == { i \in ClassItems : CounterChildren(tree[i]) = {} }

\* The segment of item i was opened by the current (or last) callback.
Opened(i) == \E k \in Calls : ev[k].k = "shm_open" /\ ev[k].i = i /\ ev[k].r = "ok"

\* The label array of item i could not be had from calloc.
NoLabelArray(i) == \E k \in Calls : ev[k].k = "calloc" /\ ev[k].i = i /\ ev[k].r = "fail"

\* C11: a class block without Counter children whose segment could be
\* opened is accepted with n_counters = 0, whatever mmap and calloc answer
\* to a request of size zero: openafs_config does not fail in it, and a
\* read pass emits no sample and makes no access for it.
C11_ZeroCounterClassIsAccepted ==
    /\ last.op = "config" =>
          \A i \in ZeroCounterClasses :
             Opened(i) => /\ lst[i].n_counters = 0
                          /\ ~(last.ret # 0 /\ NoLabelArray(i))
    /\ (reg = "ok" /\ last.op = "read") =>
          \A i \in ZeroCounterClasses :
             /\ \A k \in DOMAIN out : out[k].i # i
             /\ \A k \in Calls : ev[k].i # i

\* The loop of openafs_config reaches item i whatever the segments are:
\* the list was allocated and the items before i are skipped.
Reached(i) ==
    /\ \E k \in Calls : ev[k].k = "calloc" /\ ev[k].i = 0 /\ ev[k].r = "ok"
    /\ \A m \in 1..(i - 1) : m \in OtherItems

\* C12: a class name of at most 254 characters passes the length test and
\* the name given to shm_open is "/" followed by the whole name; a class
\* name of 255 characters or more makes openafs_config fail without a
\* shm_open for that class.
C12_NameLengthBoundIsExact ==
    last.op = "config" =>
       /\ \A k \in Calls :
             ev[k].k = "shm_open" =>
                /\ tree[ev[k].i].name.len <= 254
                /\ ev[k].s = Str(tree[ev[k].i].name.id, 1 + tree[ev[k].i].name.len)
       /\ \A i \in ClassItems :
             (tree[i].hasStr /\ tree[i].name.len <= 254 /\ Reached(i)) =>
                \E k \in Calls : ev[k].k = "shm_open" /\ ev[k].i = i
       /\ \A i \in ClassItems :
             (tree[i].hasStr /\ tree[i].name.len >= 255) =>
                /\ last.ret # 0
                /\ \A k \in Calls : ~(ev[k].k = "shm_open" /\ ev[k].i = i)

\* C12 witness: one call that opens the segment of a name of 254
\* characters under a name of 255 and then refuses a name of 255.
C12_Witness ==
    /\ last.op = "config"
    /\ last.ret # 0
    /\ \E k \in Calls :
          /\ ev[k].k = "shm_open" /\ ev[k].r = "ok"
          /\ tree[ev[k].i].name.len = 254
          /\ ev[k].s.len = 255
    /\ \E i \in ClassItems : tree[i].hasStr /\ tree[i].name.len = 255

\* The class name, an underscore and the label, whole.
Joined(class, label) == [class |-> class, sep |-> TRUE, label |-> label]

\* C13: the metric type of every sample is the class name, an underscore
\* and the label of its slot, complete; two slots of one class that have
\* different labels get different types.
C13_MetricTypeIsUntruncated ==
    /\ \A k \in DOMAIN out : out[k].type = Joined(out[k].class, out[k].label)
    /\ \A k \in DOMAIN out : \A m \in DOMAIN out :
          (out[k].i = out[m].i /\ out[k].label # out[m].label) =>
             out[k].type # out[m].type

\* C14: after a successful configure the label array and the counter view
\* of every class have n_counters elements each, and a read pass indexes
\* labels and counters inside them only.
C14_LabelsAndCountersSameLength ==
    /\ RegistryLive =>
          \A i \in ClassItems :
             /\ lst[i].labels # NULL
             /\ Len(heap[lst[i].labels].arr) = lst[i].n_counters
             /\ lst[i].n_counters > 0 =>
                   /\ lst[i].counters > 0
                   /\ maps[lst[i].counters].n = lst[i].n_counters
    /\ (reg = "ok" /\ last.op = "read") =>
          /\ \A k \in DOMAIN out : out[k].j \in 1..lst[out[k].i].n_counters
          /\ \A k \in Calls : ~(ev[k].k = "load" /\ ev[k].r # "ok")

\* C15: the rollback of a failing openafs_config calls close only on
\* descriptors that shm_open returned during this call and munmap only on
\* addresses that mmap returned during this call; the failing class and
\* the entries that were never processed cause no such call.
C15_RollbackReleasesOnlyOwned ==
    (last.op = "config" /\ last.ret # 0) =>
       \A k \in Calls :
          /\ ev[k].k = "close" => ev[k].a \in owned.fds
          /\ ev[k].k = "munmap" => ev[k].a \in owned.maps

\* C16: a successful openafs_config that follows a successful one does not
\* overwrite the registry while it owns descriptors, mappings or heap
\* blocks of the earlier call, so that the openafs_destroy that follows
\* successful calls leaves no segment descriptor open and no view mapped.
C16_ReconfigureReleasesEarlierRegistry ==
    [][ /\ (reg = "ok" /\ last'.op = "config" /\ calls' = calls + 1 /\ last'.ret = 0) =>
              /\ \A f \in owned.fds \ owned'.fds : fdt'[f] = "closed"
              /\ \A m \in owned.maps : ~maps'[m].live
              /\ \A b \in owned.blks : ~heap'[b].live
        /\ (reg = "ok" /\ last'.op = "destroy" /\ calls' = calls + 1 /\ last'.done) =>
              /\ \A f \in Fds : fdt'[f] \notin Segments
              /\ \A m \in DOMAIN maps' : ~maps'[m].live ]_vars

\* The Counter children of item i that have no string value.
BadLabels(i) == { j \in CounterChildren(tree[i]) : ~tree[i].children[j].hasStr }

\* A step of the construction of class i fails: the class has no string
\* value, its name is too long, its segment cannot be opened, its counters
\* cannot be mapped, its label array cannot be allocated or one of its
\* labels cannot be extracted.
FailsIn(i) ==
    /\ i \in ClassItems
    /\ \/ ~tree[i].hasStr
       \/ ~Fits(tree[i].name)
       \/ \E k \in Calls : ev[k].k = "shm_open" /\ ev[k].i = i /\ ev[k].r = "fail"
       \/ \E k \in Calls : ev[k].k = "mmap" /\ ev[k].i = i /\ ev[k].r = "fail"
       \/ NoLabelArray(i)
       \/ BadLabels(i) # {}

\* C17: when a class or a label fails during openafs_config, the call
\* returns the error, no item declared after the failing class was
\* processed (no shm_open, mmap or calloc for it, its entry untouched), no
\* label after the failing one was extracted, and what the call had opened
\* and mapped is released by calls that all follow the last acquisition.
C17_ConstructionAbortsAtFirstFailure ==
    last.op = "config" =>
       /\ \A i \in 1..Len(tree) :
             FailsIn(i) =>
                /\ last.ret # 0
                /\ \A k \in Calls :
                      ev[k].k \in {"shm_open", "mmap", "calloc"} => ev[k].i <= i
                /\ lstPtr # NULL => \A m \in (i + 1)..Len(tree) : lst[m] = ZeroClass
                /\ (lstPtr # NULL /\ lst[i].labels # NULL) =>
                      \A j \in 1..Len(tree[i].children) :
                         (\E b \in BadLabels(i) : b < j) =>
                            heap[lst[i].labels].arr[j] = NULL
       /\ last.ret # 0 =>
             /\ \A f \in owned.fds : fdt[f] = "closed"
             /\ \A m \in owned.maps : ~maps[m].live
             /\ \A k \in Calls : \A m \in Calls :
                   (/\ ev[k].k \in {"shm_open", "mmap", "calloc"}
                    /\ ev[m].k \in {"close", "munmap", "free"}) => k < m

====
